---- MODULE Spec2Model ----
(***************************************************************************)
(* A model of evennia/utils/spawner.py: the prototype registry, the        *)
(* validator _validate_prototype, the resolver _get_prototype, the field   *)
(* extraction of spawn and the hand-over to _batch_create_object.          *)
(*                                                                         *)
(* Python values are tagged records [t |-> type, v |-> payload]; a dict    *)
(* (a prototype record, the registry) is a TLA+ function whose DOMAIN is   *)
(* the dict's key set.  id(dict) of a registry entry is the name it is     *)
(* registered under (every entry is its own dict object).                  *)
(***************************************************************************)
EXTENDS Naturals, Sequences, FiniteSets, TLC

VARIABLES
    protparents,   \* spawn: the merged registry, name -> prototype dict
    prototypes,    \* spawn: the *prototypes argument, a sequence of requests
    kwargs,        \* spawn: the keyword arguments given (a dict)
    pc,            \* position inside spawn / the direct call made
    idx,           \* spawn: index of the next element of prototypes
    objsparams,    \* spawn: the creation instructions packed so far
    created,       \* the objects _batch_create_object has built and saved
    calls,         \* producer name -> number of times it has been invoked
    err,           \* the exception that ended the call, "none" if none
    returned,      \* the value the call returned
    call           \* the function entered and, for a direct call, its key

vars == <<protparents, prototypes, kwargs, pc, idx, objsparams, created,
          calls, err, returned, call>>

----------------------------------------------------------------------------
(* Bounds of the model *)

\* longest tuple of parent names in a "prototype" field
MaxParents == 2
\* most prototypes passed to one spawn call
MaxRequests == 2
\* the interpreter's recursion limit (1000 in CPython), scaled down
RecursionLimit == 6

----------------------------------------------------------------------------
(* Python values *)

Str(s) == [t |-> "str", v |-> s]
Int(n) == [t |-> "int", v |-> n]
Tuple(s) == [t |-> "tuple", v |-> s]
List(s) == [t |-> "list", v |-> s]
Fn(p) == [t |-> "function", v |-> p]
None == [t |-> "NoneType", v |-> "None"]
Bool(b) == [t |-> "bool", v |-> b]

EmptyDict == <<>>

\* callable(x)
callable(x) == x.t = "function"

\* bool(x) for the value types used here
Truthy(x) ==
    CASE x.t = "NoneType" -> FALSE
      [] x.t = "str" -> x.v # ""
      [] x.t \in {"tuple", "list"} -> Len(x.v) > 0
      [] x.t = "bool" -> x.v
      [] x.t = "int" -> x.v # 0
      [] OTHER -> TRUE

\* make_iter(obj): obj if it is iterable (a list or a tuple; a Python 2 str
\* has no __iter__), else the one-element list [obj].  The result is the
\* sequence iterated over; its elements are payloads.
make_iter(x) == IF x.t \in {"tuple", "list"} THEN x.v ELSE <<x.v>>

\* dict.get(k) / dict.get(k, default)
DictGet(d, k, default) == IF k \in DOMAIN d THEN d[k] ELSE default

\* d.update(e): e's items overwrite d's
DictUpdate(d, e) ==
    [k \in DOMAIN d \cup DOMAIN e |-> IF k \in DOMAIN e THEN e[k] ELSE d[k]]

\* d.pop(k, default) seen as the dict left behind
DictWithout(d, k) == [j \in DOMAIN d \ {k} |-> d[j]]

\* bool(d) for a dict: non-empty
DictTruthy(d) == DOMAIN d # {}

----------------------------------------------------------------------------
(* _validate_prototype *)

\* What a call leaves behind: the exception raised ("none" when it returned)
\* and the visited list, which the callee mutates in place.
VResult(e, visited) == [err |-> e, visited |-> visited]

InSeq(x, s) == \E n \in 1..Len(s) : s[n] = x

RECURSIVE _validate_prototype(_, _, _, _, _)
RECURSIVE ValidateParents(_, _, _, _, _)

\* The variant of the for-loop body that omits the self-reference test.
ValidateParents_NoSelfTest(key, protstrings, n, protparents_, visited) ==
    IF n > Len(protstrings) THEN VResult("none", visited)
    ELSE LET protstring == protstrings[n]
             found == protstring \in DOMAIN protparents_
                      /\ DictTruthy(protparents_[protstring])
         IN IF ~found THEN VResult("not found", visited)
            ELSE LET r == _validate_prototype(Str(protstring), protstring,
                                protparents_[protstring], protparents_, visited)
                 IN IF r.err # "none" THEN r
                    ELSE ValidateParents(key, protstrings, n + 1,
                                         protparents_, r.visited)

\* The for-loop of lines 117-123 from its n-th element on.  key is a name or
\* None (a request); protparents.get gives None for a missing name and "not
\* protparent" is also true of an empty dict.
ValidateParents(key, protstrings, n, protparents_, visited) ==
    IF n > Len(protstrings) THEN VResult("none", visited)
    ELSE LET protstring == protstrings[n]
             found == protstring \in DOMAIN protparents_
                      /\ DictTruthy(protparents_[protstring])
         IN IF key.t # "NoneType" /\ protstring = key.v
            THEN VResult("tries to prototype itself", visited)
            ELSE IF ~found THEN VResult("not found", visited)
            ELSE LET r == _validate_prototype(Str(protstring), protstring,
                                protparents_[protstring], protparents_, visited)
                 IN IF r.err # "none" THEN r
                    ELSE ValidateParents(key, protstrings, n + 1,
                                         protparents_, r.visited)

\* The variant that returns, instead of raising, on a dict already visited.
ValidatePrototype_SkipVisited(key, id_, prototype, protparents_, visited) ==
    IF InSeq(id_, visited) THEN VResult("none", visited)
    ELSE LET visited1 == Append(visited, id_)
             protstrings == DictGet(prototype, "prototype", None)
         IN IF Truthy(protstrings)
            THEN ValidateParents(key, make_iter(protstrings), 1,
                                 protparents_, visited1)
            ELSE VResult("none", visited1)

\* _validate_prototype(key, prototype, protparents, visited); id_ is
\* id(prototype).
_validate_prototype(key, id_, prototype, protparents_, visited) ==
    IF InSeq(id_, visited) THEN VResult("infinite nesting", visited)
    ELSE LET visited1 == Append(visited, id_)
             protstrings == DictGet(prototype, "prototype", None)
         IN IF Truthy(protstrings)
            THEN ValidateParents(key, make_iter(protstrings), 1,
                                 protparents_, visited1)
            ELSE VResult("none", visited1)

----------------------------------------------------------------------------
(* _get_prototype *)

\* What a call leaves behind: ok is FALSE when the recursion limit was hit
\* (RuntimeError: maximum recursion depth exceeded); prot is the accumulator
\* dict, which every level of the recursion mutates in place and returns.
GResult(ok, prot) == [ok |-> ok, prot |-> prot]

RECURSIVE _get_prototype(_, _, _, _)
RECURSIVE GetParents(_, _, _, _, _)

\* The for-loop of lines 135-138 from its n-th element on.
GetParents(protos, n, prot, protparents_, depth) ==
    IF n > Len(protos) THEN GResult(TRUE, prot)
    ELSE LET r == _get_prototype(DictGet(protparents_, protos[n], EmptyDict),
                                 prot, protparents_, depth + 1)
         IN IF ~r.ok THEN r
            ELSE \* new_prot is prot itself, already updated by the callee
                 GetParents(protos, n + 1, DictUpdate(r.prot, r.prot),
                            protparents_, depth)

\* The variant that applies the record's own fields before its parents', so
\* that a parent overwrites the child.
GetPrototype_ParentsLast(dic, prot, protparents_, depth) ==
    IF depth > RecursionLimit THEN GResult(FALSE, prot)
    ELSE LET own == DictUpdate(prot, dic)
             r == IF "prototype" \in DOMAIN dic
                  THEN GetParents(make_iter(dic["prototype"]), 1, own,
                                  protparents_, depth)
                  ELSE GResult(TRUE, own)
         IN IF ~r.ok THEN r
            ELSE GResult(TRUE, DictWithout(r.prot, "prototype"))

\* _get_prototype(dic, prot, protparents) entered at recursion depth `depth`.
_get_prototype(dic, prot, protparents_, depth) ==
    IF depth > RecursionLimit THEN GResult(FALSE, prot)
    ELSE LET r == IF "prototype" \in DOMAIN dic
                  THEN GetParents(make_iter(dic["prototype"]), 1, prot,
                                  protparents_, depth)
                  ELSE GResult(TRUE, prot)
         IN IF ~r.ok THEN r
            ELSE GResult(TRUE,
                         DictWithout(DictUpdate(r.prot, dic), "prototype"))

----------------------------------------------------------------------------
(* Field extraction (spawn, lines 256-301) *)

_CREATE_OBJECT_KWARGS == {"key", "location", "home", "destination"}

\* settings.DEFAULT_HOME and settings.BASE_OBJECT_TYPECLASS
DEFAULT_HOME == Str("#2")
BASE_OBJECT_TYPECLASS == Str("typeclasses.objects.Object")

\* The names spawn pops from the resolved record before it reads the rest.
PoppedNames ==
    {"key", "location", "home", "destination", "typeclass", "permissions",
     "locks", "aliases", "tags", "attrs", "exec"}

\* The other field names of the model, in the order prot.items() yields them.
ItemOrder == <<"ndb_mood", "health", "spells", "attacks">>

\* key.startswith("ndb_") and key.split("_", 1)[1]
StartsWithNdb(name) == name \in {"ndb_mood"}
AfterNdb(name) == CASE name = "ndb_mood" -> "mood" [] OTHER -> name

\* The deferred producers of the model and what each returns at its n-th
\* invocation (a counter, so that every invocation is told apart).
Producers == {"key_fn", "health_fn", "tags_fn", "attrs_fn", "inherited_fn"}

Returns(p, n) ==
    CASE p = "attrs_fn" -> List(<< <<"foo", Int(n)>> >>)
      [] p = "tags_fn" -> List(<<"mob">>)
      [] p = "key_fn" -> Str("goblin grunt")
      [] OTHER -> Int(n)

\* _handle_dbref(inp) = dbid_to_obj(inp, ObjectDB): None stays None, a dbref
\* becomes the object it names.
_handle_dbref(inp) ==
    IF inp.t = "NoneType" THEN None ELSE [t |-> "ObjectDB", v |-> inp.v]

\* The state threaded through one extraction: the invocation counts, the
\* exception raised so far and the value of the expression just evaluated.
\* `fail` names the producer that raises when invoked ("nobody": none does).
Invoke(st, f, fail) ==
    IF st.err # "none" THEN st
    ELSE IF ~callable(f)
    THEN [st EXCEPT !.err = "TypeError: object is not callable"]
    ELSE LET n == st.calls[f.v] + 1
             counted == [st.calls EXCEPT ![f.v] = n]
         IN IF f.v = fail
            THEN [calls |-> counted, err |-> "producer raised", val |-> None]
            ELSE [calls |-> counted, err |-> "none", val |-> Returns(f.v, n)]

Pass(st, x) == IF st.err # "none" THEN st ELSE [st EXCEPT !.val = x]

\* x() if callable(x) else x
CallIfCallable(st, x, fail) ==
    IF callable(x) THEN Invoke(st, x, fail) ELSE Pass(st, x)

\* x() if callable(x) else _handle_dbref(x)
CallOrDbref(st, x, fail) ==
    IF callable(x) THEN Invoke(st, x, fail) ELSE Pass(st, _handle_dbref(x))

\* The comprehensions of lines 290-295 over the names of `names` from the
\* n-th on: each value is called if callable, in order; acc collects the
\* (name, value) pairs.
RECURSIVE ResolveItems(_, _, _, _, _, _)
ResolveItems(st, names, prot, n, acc, fail) ==
    IF n > Len(names) \/ st.err # "none" THEN [st |-> st, items |-> acc]
    ELSE LET s1 == CallIfCallable(st, prot[names[n]], fail)
         IN ResolveItems(s1, names, prot, n + 1,
                         Append(acc, <<names[n], s1.val>>), fail)

\* Line 284: attributes = attrval() if callable(tagval) else attrval
AttrsResolved(st, tagval, attrval, fail) ==
    IF callable(tagval) THEN Invoke(st, attrval, fail) ELSE Pass(st, attrval)

\* Lines 258-301 for one resolved record: the invocation counts afterwards,
\* the exception raised ("none" if none) and the packed creation instruction.
\* rnd is the value of randint(1, 100000).
Extract(prot, calls0, fail, rnd) ==
    LET s0 == [calls |-> calls0, err |-> "none", val |-> None]
        s1 == CallIfCallable(s0,
                  DictGet(prot, "key", Str(<<"Spawned Object", rnd>>)), fail)
        s2 == CallOrDbref(s1, DictGet(prot, "location", None), fail)
        s3 == CallOrDbref(s2, DictGet(prot, "home", DEFAULT_HOME), fail)
        s4 == CallOrDbref(s3, DictGet(prot, "destination", None), fail)
        s5 == CallIfCallable(s4,
                  DictGet(prot, "typeclass", BASE_OBJECT_TYPECLASS), fail)
        s6 == CallIfCallable(s5, DictGet(prot, "permissions", List(<<>>)), fail)
        s7 == CallIfCallable(s6, DictGet(prot, "locks", Str("")), fail)
        s8 == CallIfCallable(s7, DictGet(prot, "aliases", Str("")), fail)
        tagval == DictGet(prot, "tags", List(<<>>))
        s9 == CallIfCallable(s8, tagval, fail)
        s10 == AttrsResolved(s9, tagval, DictGet(prot, "attrs", List(<<>>)),
                             fail)
        s11 == CallIfCallable(s10, DictGet(prot, "exec", Str("")), fail)
        rest == [k \in DOMAIN prot \ PoppedNames |-> prot[k]]
        ndbnames == SelectSeq(ItemOrder,
                        LAMBDA k : k \in DOMAIN rest /\ StartsWithNdb(k))
        attrnames == SelectSeq(ItemOrder,
                        LAMBDA k : k \in DOMAIN rest /\ ~StartsWithNdb(k))
        nd == ResolveItems(s11, ndbnames, rest, 1, <<>>, fail)
        \* dict((key.split("_", 1)[1], value) ...)
        nattributes ==
            [k \in {AfterNdb(nd.items[j][1]) : j \in 1..Len(nd.items)} |->
                nd.items[CHOOSE j \in 1..Len(nd.items) :
                             AfterNdb(nd.items[j][1]) = k][2]]
        sa == ResolveItems(nd.st, attrnames, rest, 1, <<>>, fail)
        simple_attributes == sa.items
        \* attributes + simple_attributes needs a list on the left
        s12 == IF sa.st.err = "none" /\ s10.val.t # "list"
               THEN [sa.st EXCEPT !.err = "TypeError: cannot concatenate"]
               ELSE sa.st
        attributes == SelectSeq(s10.val.v \o simple_attributes,
                          LAMBDA tup : tup[1] \notin _CREATE_OBJECT_KWARGS)
    IN IF s12.err # "none"
       THEN [calls |-> s12.calls, err |-> s12.err, objparam |-> <<>>]
       ELSE [calls |-> s12.calls, err |-> "none",
             objparam |-> [create_kwargs |->
                               [db_key |-> s1.val, db_location |-> s2.val,
                                db_home |-> s3.val, db_destination |-> s4.val,
                                db_typeclass_path |-> s5.val],
                           permissions |-> s6.val,
                           locks |-> s7.val,
                           aliases |-> s8.val,
                           nattributes |-> nattributes,
                           attributes |-> attributes,
                           tags |-> s9.val,
                           execs |-> make_iter(s11.val)]]

----------------------------------------------------------------------------
(* _batch_create_object *)

\* One saved object per creation instruction, in order; the non-empty exec
\* codes are run after the save.
_batch_create_object(objparams) ==
    [j \in 1..Len(objparams) |->
        [db |-> objparams[j].create_kwargs,
         createdict |-> [permissions |-> make_iter(objparams[j].permissions),
                         locks |-> objparams[j].locks,
                         aliases |-> make_iter(objparams[j].aliases),
                         nattributes |-> objparams[j].nattributes,
                         attributes |-> objparams[j].attributes,
                         tags |-> make_iter(objparams[j].tags)],
         executed |-> SelectSeq(objparams[j].execs, LAMBDA code : code # "")]]

----------------------------------------------------------------------------
(* Direct calls of _validate_prototype and _get_prototype on a registry *)

Names == {"A", "B", "C"}

SeqsUpTo(S, n) == UNION {[1..m -> S] : m \in 0..n}

\* The values a "prototype" field takes: one name, or a tuple of names.
ProtoValues(S) ==
    {Str(n) : n \in S}
    \cup {Tuple(s) : s \in {q \in SeqsUpTo(S, MaxParents) : Len(q) # 1}}

\* Registry entries: the empty dict, a dict without parents, dicts with.
Entries(S) ==
    {EmptyDict, [key |-> Str("goblin")]}
    \cup {[key |-> Str("goblin"), prototype |-> p] : p \in ProtoValues(S)}

\* Every registry over a subset of Names; a listed name outside the subset
\* is an unknown parent.
Registries == UNION {[D -> Entries(Names)] : D \in SUBSET Names}

Idle == [fn |-> "none", key |-> "none"]

\* Nothing has run yet.
InitCommon ==
    /\ idx = 1
    /\ objsparams = <<>>
    /\ created = <<>>
    /\ calls = [p \in Producers |-> 0]
    /\ err = "none"
    /\ returned = None

\* No spawn call is in progress.
InitDirect ==
    /\ prototypes = <<>>
    /\ kwargs = EmptyDict
    /\ pc = "idle"
    /\ call = Idle
    /\ InitCommon

InitValidate ==
    /\ protparents \in Registries
    /\ InitDirect

\* _validate_prototype(key, protparents[key], protparents, [])
CallValidate(key) ==
    /\ pc = "idle"
    /\ LET r == _validate_prototype(Str(key), key, protparents[key],
                                    protparents, <<>>)
       IN /\ err' = r.err
          /\ returned' = None
    /\ pc' = "called"
    /\ call' = [fn |-> "_validate_prototype", key |-> key]
    /\ UNCHANGED <<protparents, prototypes, kwargs, idx, objsparams,
                   created, calls>>

\* _get_prototype(protparents[key], {}, protparents)
CallGetPrototype(key) ==
    /\ pc = "idle"
    /\ LET r == _get_prototype(protparents[key], EmptyDict, protparents, 1)
       IN /\ err' = IF r.ok THEN "none"
                    ELSE "maximum recursion depth exceeded"
          /\ returned' = r.prot
    /\ pc' = "called"
    /\ call' = [fn |-> "_get_prototype", key |-> key]
    /\ UNCHANGED <<protparents, prototypes, kwargs, idx, objsparams,
                   created, calls>>

NextValidate ==
    \/ \E key \in DOMAIN protparents : CallValidate(key)
    \/ \E key \in DOMAIN protparents : CallGetPrototype(key)

SpecValidate == InitValidate /\ [][NextValidate]_vars

----------------------------------------------------------------------------
(* The inheritance graph of a registry, for stating the properties *)

\* The names entry n lists as its parents.
Listed(pp, n) ==
    IF n \in DOMAIN pp /\ "prototype" \in DOMAIN pp[n]
    THEN LET s == make_iter(pp[n]["prototype"])
         IN {s[j] : j \in 1..Len(s)}
    ELSE {}

RECURSIVE Closure(_, _)
Closure(pp, S) ==
    LET T == S \cup UNION {Listed(pp, m) : m \in S}
    IN IF T = S THEN S ELSE Closure(pp, T)

\* The names reached from n by one or more parent links.
Reach(pp, n) == Closure(pp, Listed(pp, n))

ListsSelf(pp, n) == n \in Listed(pp, n)

\* n lies on a cycle of two or more distinct registry entries.
OnCycle(pp, n) ==
    \E m \in DOMAIN pp \ {n} : m \in Reach(pp, n) /\ n \in Reach(pp, m)

Acyclic(pp) == \A m \in DOMAIN pp : m \notin Reach(pp, m)

\* n and every entry reached from n is registered and lists one parent.
SingleChain(pp, n) ==
    \A m \in {n} \cup Reach(pp, n) :
        /\ m \in DOMAIN pp
        /\ "prototype" \in DOMAIN pp[m]
        /\ Len(make_iter(pp[m]["prototype"])) = 1

Validated == call.fn = "_validate_prototype"
Resolved == call.fn = "_get_prototype"

\* Entry n passes _validate_prototype started with a fresh visited list.
Accepted(pp, n) ==
    _validate_prototype(Str(n), n, pp[n], pp, <<>>).err = "none"

----------------------------------------------------------------------------
(* C3 *)

\* C3, as stated: validating an entry that lists its own name raises the
\* self-prototyping error, and validating an entry on a cycle of two or more
\* distinct entries raises the infinite-nesting error.
C3_KindOfErrorAsClaimed ==
    Validated =>
        /\ ListsSelf(protparents, call.key)
              => err = "tries to prototype itself"
        /\ OnCycle(protparents, call.key) => err = "infinite nesting"

\* C3, amended: validating an entry that lists its own name, or one on a
\* cycle of two or more distinct entries, always raises a validation error
\* (it never passes); the error is the self-prototyping one when the entry
\* lists nothing but its own name, and the infinite-nesting one when every
\* entry on the cycle lists exactly one parent.  Otherwise another listed
\* parent may raise its own error first.
C3_MalformedChainRejected ==
    Validated =>
        LET k == call.key
        IN /\ (ListsSelf(protparents, k) \/ OnCycle(protparents, k))
                  => err # "none"
           /\ Listed(protparents, k) = {k}
                  => err = "tries to prototype itself"
           /\ (OnCycle(protparents, k) /\ SingleChain(protparents, k))
                  => err = "infinite nesting"

\* C3 witness: an entry of the 3-cycle A -> B -> C -> A was validated and the
\* infinite-nesting error was raised.
C3_Witness ==
    /\ Validated
    /\ OnCycle(protparents, call.key)
    /\ SingleChain(protparents, call.key)
    /\ Cardinality(Reach(protparents, call.key)) = 3
    /\ err = "infinite nesting"

----------------------------------------------------------------------------
(* C4 *)

\* C4: resolving a named entry of an acyclic registry, or an entry that
\* _validate_prototype accepts, never hits the recursion limit and returns a
\* mapping without a "prototype" key.
C4_ResolverTerminates ==
    (Resolved /\ (Acyclic(protparents) \/ Accepted(protparents, call.key)))
        => /\ err = "none"
           /\ "prototype" \notin DOMAIN returned

\* C4 witness: an accepted entry with a grandparent was resolved.
C4_Witness ==
    /\ Resolved
    /\ Accepted(protparents, call.key)
    /\ \E m \in Listed(protparents, call.key) : Listed(protparents, m) # {}
    /\ err = "none"
    /\ "key" \in DOMAIN returned

----------------------------------------------------------------------------
(* C10 *)

\* C10, as stated: the "was not found" error is raised only when a listed
\* name is absent from the registry, and an entry whose listed names (its
\* own and those of every entry it reaches) are all registry keys, with no
\* self-reference and no cycle, passes validation.
C10_NotFoundOnlyWhenAbsent ==
    Validated =>
        LET k == call.key
            reached == {k} \cup Reach(protparents, k)
        IN /\ err = "not found"
                => ~(Reach(protparents, k) \subseteq DOMAIN protparents)
           /\ (/\ Reach(protparents, k) \subseteq DOMAIN protparents
               /\ \A m \in reached : m \notin Reach(protparents, m))
                => err = "none"

----------------------------------------------------------------------------
(* Direct calls on a registry of four entries with inheritable fields *)

\* The registry keys in an order in which parents come before children.
Ordered == <<"A", "B", "C", "D">>

Earlier(n) ==
    {Ordered[j] : j \in {h \in 1..Len(Ordered) :
                            \E g \in (h + 1)..Len(Ordered) : Ordered[g] = n}}

Fields == {"spells", "attacks"}

Injective(s) == \A a, b \in 1..Len(s) : s[a] = s[b] => a = b

\* One parent name, or a tuple of two or more distinct parent names.
DistinctProtoValues(S) ==
    {Str(n) : n \in S}
    \cup {Tuple(s) : s \in {q \in SeqsUpTo(S, MaxParents) :
                               Len(q) >= 2 /\ Injective(q)}}

\* The fields entry n defines itself; the value names the entry.
OwnFields(n, fs) == [f \in fs |-> Str(n)]

\* The dicts registered under n: any subset of Fields, alone or with parents
\* among the earlier names.  The empty subset without parents is {}.
InheritEntries(n) ==
    {OwnFields(n, fs) : fs \in SUBSET Fields}
    \cup {DictUpdate(OwnFields(n, fs), [prototype |-> p]) :
             fs \in SUBSET Fields, p \in DistinctProtoValues(Earlier(n))}

InheritRegistries ==
    {[n \in {"A", "B", "C", "D"} |->
         CASE n = "A" -> a [] n = "B" -> b [] n = "C" -> c [] OTHER -> d] :
       a \in InheritEntries("A"), b \in InheritEntries("B"),
       c \in InheritEntries("C"), d \in InheritEntries("D")}

InitInherit ==
    /\ protparents \in InheritRegistries
    /\ InitDirect

SpecInherit == InitInherit /\ [][NextValidate]_vars

\* The record _get_prototype returns for entry m with a fresh accumulator.
OwnResolved(pp, m) == _get_prototype(pp[m], EmptyDict, pp, 1).prot

RegistryAccepted(pp) == \A n \in DOMAIN pp : Accepted(pp, n)

\* The positions of the parents of entry k whose own resolved record has f.
Suppliers(pp, k, f) ==
    LET s == make_iter(pp[k]["prototype"])
    IN {j \in 1..Len(s) : f \in DOMAIN OwnResolved(pp, s[j])}

Max(S) == CHOOSE x \in S : \A y \in S : y <= x

----------------------------------------------------------------------------
(* C1 *)

\* C1: in a registry that passes validation, the record resolved for entry P
\* has, for every field f other than "prototype": P's own value if P defines
\* f; otherwise the value f has in the resolved record of the last-listed
\* parent whose resolved record contains f; and no f when there is none.
C1_SelfThenRightmostParent ==
    (Resolved /\ RegistryAccepted(protparents)) =>
        LET k == call.key
            P == protparents[k]
        IN /\ err = "none"
           /\ \A f \in Fields :
                 IF f \in DOMAIN P
                 THEN f \in DOMAIN returned /\ returned[f] = P[f]
                 ELSE IF "prototype" \notin DOMAIN P
                         \/ Suppliers(protparents, k, f) = {}
                 THEN f \notin DOMAIN returned
                 ELSE LET s == make_iter(P["prototype"])
                          last == s[Max(Suppliers(protparents, k, f))]
                      IN /\ f \in DOMAIN returned
                         /\ returned[f] = OwnResolved(protparents, last)[f]
           /\ DOMAIN returned \subseteq Fields

\* C1 witness: the GOBLIN_ARCHWIZARD case.  D lists (B, C); B inherits
\* "attacks" from A and defines "spells"; C defines "attacks"; D resolved
\* has B's spells and C's attacks.
C1_Witness ==
    /\ Resolved
    /\ RegistryAccepted(protparents)
    /\ call.key = "D"
    /\ "prototype" \in DOMAIN protparents["D"]
    /\ make_iter(protparents["D"]["prototype"]) = <<"B", "C">>
    /\ DOMAIN protparents["D"] = {"prototype"}
    /\ Listed(protparents, "B") = {"A"}
    /\ "attacks" \in DOMAIN protparents["A"]
    /\ DOMAIN protparents["B"] = {"prototype", "spells"}
    /\ DOMAIN protparents["C"] = {"attacks"}
    /\ returned = [spells |-> Str("B"), attacks |-> Str("C")]

----------------------------------------------------------------------------
(* C2 *)

\* D lists (B, C), B and C each list A, A lists nothing and is not empty.
IsDiamond(pp) ==
    /\ make_iter(DictGet(pp["D"], "prototype", None)) = <<"B", "C">>
    /\ make_iter(DictGet(pp["B"], "prototype", None)) = <<"A">>
    /\ make_iter(DictGet(pp["C"], "prototype", None)) = <<"A">>
    /\ "prototype" \notin DOMAIN pp["A"]
    /\ DictTruthy(pp["A"])

\* C2, as stated: every entry of a diamond registry passes validation with a
\* fresh visited list.
C2_DiamondPassesValidation ==
    (Validated /\ IsDiamond(protparents)) => err = "none"

----------------------------------------------------------------------------
(* spawn *)

\* The dicts found in the prototype modules: no module is configured
\* (no prototype_modules argument, no settings.PROTOTYPE_MODULES).
ModulePrototypes == EmptyDict

\* Lines 232-240: the registry spawn builds from its keyword arguments.
MergedRegistry ==
    DictUpdate(ModulePrototypes, DictGet(kwargs, "prototype_parents", EmptyDict))

\* Lines 241-242, when entry `key` is the first one the loop finds invalid:
\* its error ends the call.  (The loop follows the dict's order, which the
\* caller does not control: any invalid entry may be the first.)
SpawnRegistryRejected(key) ==
    /\ pc = "start"
    /\ key \in DOMAIN MergedRegistry
    /\ ~Accepted(MergedRegistry, key)
    /\ protparents' = MergedRegistry
    /\ err' = _validate_prototype(Str(key), key, MergedRegistry[key],
                                  MergedRegistry, <<>>).err
    /\ pc' = "raised"
    /\ UNCHANGED <<prototypes, kwargs, idx, objsparams, created, calls,
                   returned, call>>

\* Lines 232-242, when every entry passes.
SpawnRegistryAccepted ==
    /\ pc = "start"
    /\ RegistryAccepted(MergedRegistry)
    /\ protparents' = MergedRegistry
    /\ pc' = "validated"
    /\ UNCHANGED <<prototypes, kwargs, idx, objsparams, created, calls, err,
                   returned, call>>

\* Lines 244-246: copy.deepcopy(protparents) is returned.
SpawnReturnPrototypes ==
    /\ pc = "validated"
    /\ "return_prototypes" \in DOMAIN kwargs
    /\ returned' = [t |-> "dict", v |-> protparents]
    /\ pc' = "done"
    /\ UNCHANGED <<protparents, prototypes, kwargs, idx, objsparams, created,
                   calls, err, call>>

\* One pass of the loop of lines 249-301 over prototypes[idx]: what it
\* leaves in pc, err, idx, objsparams and calls.
LoopPass(fail, rnd) ==
    LET prototype == prototypes[idx]
        v == _validate_prototype(None, prototype.id, prototype.dic,
                                 protparents, <<>>)
        g == _get_prototype(prototype.dic, EmptyDict, protparents, 1)
        x == Extract(g.prot, calls, fail, rnd)
        raised(e, c) == [pc |-> "raised", err |-> e, idx |-> idx,
                         objsparams |-> objsparams, calls |-> c]
    IN IF v.err # "none" THEN raised(v.err, calls)
       ELSE IF ~g.ok THEN raised("maximum recursion depth exceeded", calls)
       ELSE IF ~DictTruthy(g.prot)
       THEN [pc |-> pc, err |-> err, idx |-> idx + 1,
             objsparams |-> objsparams, calls |-> calls]
       ELSE IF x.err # "none" THEN raised(x.err, x.calls)
       ELSE [pc |-> pc, err |-> err, idx |-> idx + 1,
             objsparams |-> Append(objsparams, x.objparam), calls |-> x.calls]

\* The variant that builds and saves each object inside the loop.
SpawnPrototype_CreateInLoop(fail, rnd) ==
    /\ pc = "validated"
    /\ "return_prototypes" \notin DOMAIN kwargs
    /\ idx <= Len(prototypes)
    /\ LET n == LoopPass(fail, rnd)
       IN /\ pc' = n.pc
          /\ err' = n.err
          /\ idx' = n.idx
          /\ objsparams' = n.objsparams
          /\ calls' = n.calls
          /\ created' = _batch_create_object(n.objsparams)
    /\ UNCHANGED <<protparents, prototypes, kwargs, returned, call>>

\* Lines 249-301, one pass.  Nothing is created here.
SpawnPrototype(fail, rnd) ==
    /\ pc = "validated"
    /\ "return_prototypes" \notin DOMAIN kwargs
    /\ idx <= Len(prototypes)
    /\ LET n == LoopPass(fail, rnd)
       IN /\ pc' = n.pc
          /\ err' = n.err
          /\ idx' = n.idx
          /\ objsparams' = n.objsparams
          /\ calls' = n.calls
    /\ UNCHANGED <<protparents, prototypes, kwargs, created, returned, call>>

\* Line 303: the batch goes to _batch_create_object; its objects are
\* returned.
SpawnCreate ==
    /\ pc = "validated"
    /\ "return_prototypes" \notin DOMAIN kwargs
    /\ idx > Len(prototypes)
    /\ created' = _batch_create_object(objsparams)
    /\ returned' = List(_batch_create_object(objsparams))
    /\ pc' = "done"
    /\ UNCHANGED <<protparents, prototypes, kwargs, idx, objsparams, calls,
                   err, call>>

\* randint(1, 100000): the ends of its range
RandInts == {1, 100000}

Next ==
    \/ \E key \in DOMAIN MergedRegistry : SpawnRegistryRejected(key)
    \/ SpawnRegistryAccepted
    \/ SpawnReturnPrototypes
    \/ \E fail \in Producers \cup {"nobody"}, rnd \in RandInts :
           SpawnPrototype(fail, rnd)
    \/ SpawnCreate

----------------------------------------------------------------------------
(* The spawn calls considered *)

\* The dicts with field `name` absent or set to one of `vals`.
Optional(name, vals) == {EmptyDict} \cup {[k \in {name} |-> v] : v \in vals}

\* The ways return_prototypes is given: not at all, True, False.
ReturnOptions == Optional("return_prototypes", {Bool(TRUE), Bool(FALSE)})

\* A request is a dict and its identity: "anon" for a dict of the caller's
\* own, the registry name for a dict that is itself a registry entry.
Requests(reg, dicts) ==
    {[id |-> "anon", dic |-> d] : d \in dicts}
    \cup {[id |-> n, dic |-> reg[n]] : n \in DOMAIN reg}

\* A spawn call has been entered with these arguments.
InitSpawn(reg, opt, requests) ==
    /\ kwargs = DictUpdate([prototype_parents |-> reg], opt)
    /\ prototypes = requests
    /\ protparents = EmptyDict
    /\ pc = "start"
    /\ call = [fn |-> "spawn", key |-> "none"]
    /\ InitCommon

\* Registries over A and B: empty, plain, inheriting, self-prototyping and
\* with an unknown parent.
SpawnEntries ==
    {EmptyDict, [key |-> Str("goblin"), health |-> Fn("inherited_fn")]}
    \cup {[key |-> Str("wizard"), prototype |-> Str(n)] :
             n \in {"A", "B", "X"}}

SpawnRegistries == [{"A", "B"} -> SpawnEntries]

SpawnDicts ==
    {DictUpdate(a, b) :
        a \in Optional("prototype", {Str("A"), Str("B")}),
        b \in Optional("health", {Int(25), Fn("health_fn")})}

Init ==
    \E reg \in SpawnRegistries, opt \in ReturnOptions :
        \E requests \in SeqsUpTo(Requests(reg, SpawnDicts), MaxRequests) :
            InitSpawn(reg, opt, requests)

Spec == Init /\ [][Next]_vars

----------------------------------------------------------------------------
(* C5 *)

\* C5: while a spawn call has raised, or has requests left to validate,
\* resolve and extract, no object has been created; objects exist only once
\* the call has passed every request and reached the store step.
C5_NothingCreatedBeforeAllExtracted ==
    /\ err # "none" => created = <<>>
    /\ created # <<>> =>
          /\ pc = "done"
          /\ idx > Len(prototypes)
          /\ Len(created) = Len(objsparams)

\* C5 witness: the call raised on a later request after an earlier one had
\* been extracted, and nothing was created.
C5_Witness ==
    /\ pc = "raised"
    /\ idx > 1
    /\ Len(objsparams) >= 1
    /\ created = <<>>

----------------------------------------------------------------------------
(* C7 *)

\* C7, as stated: return_prototypes given as True makes spawn return the
\* registry and create nothing; given as False, or not given, spawn goes
\* through the requests and returns the list of created objects.
C7_FlagValueDecides ==
    pc = "done" =>
        IF "return_prototypes" \in DOMAIN kwargs
           /\ Truthy(kwargs["return_prototypes"])
        THEN returned.t = "dict" /\ created = <<>>
        ELSE returned.t = "list" /\ idx > Len(prototypes)

----------------------------------------------------------------------------
(* spawn called with one prototype, passed one or more times *)

\* The registry: a plain parent whose health is deferred, or a parent that
\* prototypes itself.
ExtractRegistries ==
    {[n \in {"A"} |-> [key |-> Str("goblin"), health |-> Fn("inherited_fn")]],
     [n \in {"A"} |-> [prototype |-> Str("A")]]}

\* The prototypes: each field absent, literal or deferred.
ExtractDicts ==
    {DictUpdate(a, DictUpdate(b, DictUpdate(c, DictUpdate(d,
         DictUpdate(e, DictUpdate(f, DictUpdate(g, h))))))) :
        a \in Optional("prototype", {Str("A")}),
        b \in Optional("key", {Fn("key_fn")}),
        c \in Optional("typeclass", {Str("types.objects.Monster")}),
        d \in Optional("tags", {List(<<"mob">>), Fn("tags_fn")}),
        e \in Optional("attrs",
                 {List(<< <<"foo", Int(1)>> >>),
                  List(<< <<"typeclass", Int(1)>>, <<"foo", Int(1)>> >>),
                  List(<< <<"key", Int(1)>>, <<"foo", Int(1)>> >>),
                  Fn("attrs_fn")}),
        f \in Optional("health", {Int(25), Fn("health_fn")}),
        g \in Optional("ndb_mood", {Str("grumpy")}),
        h \in Optional("location", {Str("#12")})}

InitExtract ==
    \E reg \in ExtractRegistries, opt \in ReturnOptions, d \in ExtractDicts :
        \E k \in 1..MaxRequests :
            InitSpawn(reg, opt, [j \in 1..k |-> [id |-> "anon", dic |-> d]])

SpecExtract == InitExtract /\ [][Next]_vars

\* The resolved record of the prototype passed (the same at every position).
ResolvedRequest ==
    _get_prototype(prototypes[1].dic, EmptyDict, MergedRegistry, 1).prot

\* Producer p is the value of a field of record R.
Supplies(p, R) == \E f \in DOMAIN R : callable(R[f]) /\ R[f].v = p

TypeErrors ==
    {"TypeError: object is not callable", "TypeError: cannot concatenate"}

\* The identity and placement field names.
IdentityNames == {"key", "location", "home", "destination", "typeclass"}

\* The call went through its requests and ended, and not because a producer
\* itself raised.
EndedWithoutProducerError ==
    /\ "return_prototypes" \notin DOMAIN kwargs
    /\ \/ pc = "done"
       \/ pc = "raised" /\ err \in TypeErrors

----------------------------------------------------------------------------
(* C6 *)

\* C6, as stated: when one prototype is passed k times to a spawn call, a
\* producer that supplies a field of the resolved record has been invoked
\* exactly k times when the call ends, and never more than once per request
\* begun; a producer that supplies none (an ancestor's, overridden) is never
\* invoked.
C6_ProducerInvokedOncePerRequest ==
    /\ \A p \in Producers : calls[p] <= idx
    /\ EndedWithoutProducerError =>
          \A p \in Producers :
              calls[p] = IF Supplies(p, ResolvedRequest)
                         THEN Len(prototypes) ELSE 0

----------------------------------------------------------------------------
(* C8 *)

\* C8, as stated: no creation instruction holds a persistent attribute named
\* key, location, home, destination or typeclass, and every other attrs
\* tuple and every ad-hoc field of the resolved record is among its
\* attributes.
C8_NoIdentityNameAmongAttributes ==
    \A j \in 1..Len(objsparams) :
        LET attributes == objsparams[j].attributes
            names == {attributes[n][1] : n \in 1..Len(attributes)}
            R == ResolvedRequest
            given == DictGet(R, "attrs", List(<<>>))
        IN /\ names \cap IdentityNames = {}
           /\ \A f \in DOMAIN R \ PoppedNames :
                  ~StartsWithNdb(f) => f \in names
           /\ given.t = "list" =>
                  \A n \in 1..Len(given.v) :
                      given.v[n][1] \notin IdentityNames
                          => InSeq(given.v[n], attributes)

----------------------------------------------------------------------------
(* C9 *)

\* C9, as stated: extraction does not fail on any combination of deferred
\* and literal tags and attrs, and the attrs producer (the tags producer) is
\* invoked exactly when attrs (tags) is deferred.
C9_AttrsResolvedOnItsOwnTest ==
    /\ err \notin TypeErrors
    /\ (pc = "done" /\ objsparams # <<>>) =>
          LET R == ResolvedRequest
          IN /\ calls["attrs_fn"] > 0
                  <=> callable(DictGet(R, "attrs", List(<<>>)))
             /\ calls["tags_fn"] > 0
                  <=> callable(DictGet(R, "tags", List(<<>>)))

====
